---- MODULE Spec2Model ----
(***************************************************************************)
(* Model of the Api_Guard test execution engine: the intake controller     *)
(* (createTestRun), the shared BullMQ queue 'test-execution-queue' and the *)
(* job processor of workers/worker.ts with its three prisma.testRun.update *)
(* calls.  One action per await point of the processor, so that several    *)
(* workers and redelivered jobs interleave as they do in the program.      *)
(***************************************************************************)
EXTENDS Integers, FiniteSets, Sequences, TLC

\* ---------------------------------------------------------------- bounds
MaxRuns == 2          \* runs created through createTestRun
NumWorkers == 2       \* worker processes attached to the queue
MaxRedeliveries == 1  \* jobs the queue hands out again while still active
MaxFaults == 1        \* persistence writes that throw although the row exists

\* ------------------------------------------------------------- constants
RunIds == 1..MaxRuns  \* testRunId values; a job is identified by the one it carries
NoJob == 0            \* wjob of a worker that holds no job
MissingRun == 1       \* testRunId of the stale job of InitMissing
Workers == 1..NumWorkers

\* zod/schemas.ts: testType: z.enum([...])
SchemaTestTypes == {"IDEMPOTENCY", "RACE_CONDITION", "RATE_LIMIT"}

\* worker.ts switch (config.testType): the cases that select a runner
RunnerForEveryType(t) == TRUE
HasRunner(t) == t \in {"IDEMPOTENCY", "RACE_CONDITION"}

\* IdempotencyResult.verdict / RaceResult.verdict: what a runner can return
IdempotencyVerdicts == {"PASS", "FAIL", "WARN", "ERROR"}
RaceVerdicts == {"PASS", "FAIL", "WARN"}
RunnerVerdicts(t) == IF t = "IDEMPOTENCY" THEN IdempotencyVerdicts ELSE RaceVerdicts

Terminal == {"COMPLETED", "FAILED"}

\* TestRun row as created by the migration: nullable columns start NULL ("None"/0)
NoRow == [exists |-> FALSE, testType |-> "None", status |-> "None",
          verdict |-> "None", summary |-> "None", logs |-> "None", finishedAt |-> 0]

\* new Date() at a terminal write: a time later than the one the row holds
\* (0 is NULL); only the order of the writes to one row is kept.
NewDate(row) == row.finishedAt + 1

\* prisma.testRun.update({where: {id}}): throws when no row has that id
RecordFoundUpsert(d, r) == TRUE
RecordFound(d, r) == d[r].exists

VARIABLES
  db,            \* TestRun table: testRunId -> row
  nextId,        \* next id prisma.testRun.create assigns
  jobState,      \* queue: job -> "none" | "waiting" | "active" | "completed" | "failed"
  jobType,       \* job.data.config.testType
  deliveries,    \* how often the queue handed the job to a worker
  pc,            \* worker -> position in the processor
  wjob,          \* worker -> job it holds
  wtok,          \* worker -> delivery number of its lock on the job
  result,        \* worker -> result.verdict of the runner ("None" before)
  error,         \* worker -> error.message caught ("None" before)
  faults,        \* persistence faults injected so far
  redeliveries,  \* jobs handed out again so far
  \* ---- history, read only by the properties
  probes,        \* run -> number of runner invocations (probes fired at the target)
  termWrites,    \* worker -> terminal writes applied in the current execution
  wfault,        \* worker -> writes that threw in the current execution
  lateStart,     \* worker -> the run was already terminal when the job was delivered
  cancelled      \* runs cancelled externally before pickup

\* State of one invocation of runIdempotencyTest (engine/runners/idempotency.ts)
VARIABLES
  ipc,           \* position in runIdempotencyTest ("off": no invocation modelled)
  res1,          \* outcome of the baseline request R1
  res2,          \* outcome of the replay request R2
  creply,        \* what the oracle answered to analyzeIdempotencySchema
  schema,        \* value analyzeIdempotencySchema returned
  jreply,        \* what the oracle answered to evaluateIdempotencyMismatch
  iresult,       \* IdempotencyResult returned
  \* ---- history, read only by the properties
  sent,          \* requests issued to the target, in order
  inflight,      \* requests issued and not yet answered
  oracleLog,     \* oracle operations invoked, in order
  settled        \* the 500 ms delay has elapsed

\* State of one invocation of runRaceConditionTest (engine/runners/race-conditions.ts)
VARIABLES
  rpc,           \* position in runRaceConditionTest ("off": no invocation modelled)
  kreply,        \* what the oracle answered to analyzeRaceConditionIntent
  constraint,    \* constraint the runner compares against
  rsent,         \* requests of the batch issued
  rok,           \* responses with r.ok
  rfail,         \* responses with !r.ok
  rcodes,        \* distinct status codes seen
  rresult        \* RaceResult returned

idemVars == <<ipc, res1, res2, creply, schema, jreply, iresult, sent, inflight,
              oracleLog, settled>>
raceVars == <<rpc, kreply, constraint, rsent, rok, rfail, rcodes, rresult>>
runnerVars == <<idemVars, raceVars>>

workerVars == <<db, nextId, jobState, jobType, deliveries, pc, wjob, wtok, result, error,
                faults, redeliveries, probes, termWrites, wfault, lateStart, cancelled>>

vars == <<workerVars, runnerVars>>

\* Values of the runner variables while no runner invocation is modelled
None == [kind |-> "none"]

IdemOff ==
  /\ ipc = "off"
  /\ res1 = None /\ res2 = None
  /\ creply = None /\ schema = None /\ jreply = None
  /\ iresult = None
  /\ sent = <<>> /\ inflight = {} /\ oracleLog = <<>> /\ settled = FALSE

RaceOff ==
  /\ rpc = "off"
  /\ kreply = None /\ constraint = None
  /\ rsent = 0 /\ rok = 0 /\ rfail = 0 /\ rcodes = {}
  /\ rresult = None

queueVars == <<jobState, jobType, deliveries>>
histVars == <<probes, termWrites, wfault, lateStart, cancelled>>

WorkerInit ==
  /\ db = [r \in RunIds |-> NoRow]
  /\ nextId = 1
  /\ jobState = [j \in RunIds |-> "none"]
  /\ jobType = [j \in RunIds |-> "None"]
  /\ deliveries = [j \in RunIds |-> 0]
  /\ pc = [w \in Workers |-> "idle"]
  /\ wjob = [w \in Workers |-> NoJob]
  /\ wtok = [w \in Workers |-> 0]
  /\ result = [w \in Workers |-> "None"]
  /\ error = [w \in Workers |-> "None"]
  /\ faults = 0
  /\ redeliveries = 0
  /\ probes = [r \in RunIds |-> 0]
  /\ termWrites = [w \in Workers |-> 0]
  /\ wfault = [w \in Workers |-> {}]
  /\ lateStart = [w \in Workers |-> FALSE]
  /\ cancelled = {}

Init == WorkerInit /\ IdemOff /\ RaceOff

\* ------------------------------------------------------------------ intake
\* createTestRun: RunTestSchema.parse, prisma.testRun.create (PENDING),
\* testQueue.add('execute-test', {testRunId, config}).
createTestRun(t) ==
  /\ nextId <= MaxRuns
  /\ t \in SchemaTestTypes
  /\ db' = [db EXCEPT ![nextId] = [NoRow EXCEPT !.exists = TRUE, !.testType = t,
                                                 !.status = "PENDING"]]
  /\ nextId' = nextId + 1
  /\ jobState' = [jobState EXCEPT ![nextId] = "waiting"]
  /\ jobType' = [jobType EXCEPT ![nextId] = t]
  /\ UNCHANGED <<deliveries, pc, wjob, wtok, result, error, faults, redeliveries,
                 histVars>>
  /\ UNCHANGED runnerVars

\* ------------------------------------------------------------------- queue
\* The queue hands a waiting job to an idle worker, which enters the
\* processor (worker.ts:13-18).  Workers are interchangeable, so the idle
\* worker of lowest index takes the job.
Deliver(w, j) ==
  /\ pc[w] = "idle"
  /\ \A w2 \in Workers : w2 < w => pc[w2] # "idle"
  /\ jobState[j] = "waiting"
  /\ jobState' = [jobState EXCEPT ![j] = "active"]
  /\ deliveries' = [deliveries EXCEPT ![j] = @ + 1]
  /\ pc' = [pc EXCEPT ![w] = "start"]
  /\ wjob' = [wjob EXCEPT ![w] = j]
  /\ wtok' = [wtok EXCEPT ![w] = deliveries[j] + 1]
  /\ lateStart' = [lateStart EXCEPT ![w] = db[j].status \in Terminal]
  /\ UNCHANGED <<db, nextId, jobType, result, error, faults, redeliveries, probes,
                 termWrites, wfault, cancelled>>
  /\ UNCHANGED runnerVars

\* At-least-once delivery: a job that is active (its lock not renewed in
\* time) is put back to waiting while its first processor may still run.
Redeliver(j) ==
  /\ jobState[j] = "active"
  /\ redeliveries < MaxRedeliveries
  /\ redeliveries' = redeliveries + 1
  /\ jobState' = [jobState EXCEPT ![j] = "waiting"]
  /\ UNCHANGED <<db, nextId, jobType, deliveries, pc, wjob, wtok, result, error,
                 faults, histVars>>
  /\ UNCHANGED runnerVars

\* ------------------------------------------------------------- processor
\* One prisma.testRun.update that throws: the row is missing, or a
\* persistence fault occurs.  A thrown update changes no row.
Thrown(w, kind) ==
  /\ \/ ~RecordFound(db, wjob[w])
     \/ faults < MaxFaults
  /\ faults' = IF RecordFound(db, wjob[w]) THEN faults + 1 ELSE faults
  /\ wfault' = [wfault EXCEPT ![w] = @ \cup {kind}]
  /\ UNCHANGED db

\* worker.ts:22-25  update(status: 'RUNNING'); a throw goes to the catch block
UpdateRunning(w) ==
  /\ pc[w] = "start"
  /\ \/ /\ RecordFound(db, wjob[w])
        /\ db' = [db EXCEPT ![wjob[w]].status = "RUNNING"]
        /\ pc' = [pc EXCEPT ![w] = "select"]
        /\ UNCHANGED <<error, faults, wfault>>
     \/ /\ Thrown(w, "RUNNING")
        /\ pc' = [pc EXCEPT ![w] = "catch"]
        /\ error' = [error EXCEPT ![w] = "DbError"]
  /\ UNCHANGED <<nextId, queueVars, wjob, wtok, result, redeliveries, probes,
                 termWrites, lateStart, cancelled>>
  /\ UNCHANGED runnerVars

\* worker.ts:30-51  switch (config.testType): await the runner, or throw
\* new Error(`Unknown test type: ...`) into the catch block.
SelectRunner(w) ==
  /\ pc[w] = "select"
  /\ IF HasRunner(jobType[wjob[w]])
       THEN /\ \E v \in RunnerVerdicts(jobType[wjob[w]]) :
                 result' = [result EXCEPT ![w] = v]
            /\ probes' = [probes EXCEPT ![wjob[w]] = @ + 1]
            /\ pc' = [pc EXCEPT ![w] = "save"]
            /\ UNCHANGED error
       ELSE /\ error' = [error EXCEPT ![w] = "UnknownType"]
            /\ pc' = [pc EXCEPT ![w] = "catch"]
            /\ UNCHANGED <<result, probes>>
  /\ UNCHANGED <<db, nextId, queueVars, wjob, wtok, faults, redeliveries,
                 termWrites, wfault, lateStart, cancelled>>
  /\ UNCHANGED runnerVars

\* worker.ts:54-64  update(COMPLETED, verdict, resultSummary, finishedAt)
SaveCompleted(w) ==
  /\ pc[w] = "save"
  /\ \/ /\ RecordFound(db, wjob[w])
        /\ db' = [db EXCEPT ![wjob[w]].status = "COMPLETED",
                            ![wjob[w]].verdict = result[w],
                            ![wjob[w]].summary = result[w],
                            ![wjob[w]].finishedAt = NewDate(db[wjob[w]])]
        /\ termWrites' = [termWrites EXCEPT ![w] = @ + 1]
        /\ pc' = [pc EXCEPT ![w] = "returned"]
        /\ UNCHANGED <<error, faults, wfault>>
     \/ /\ Thrown(w, "COMPLETED")
        /\ pc' = [pc EXCEPT ![w] = "catch"]
        /\ error' = [error EXCEPT ![w] = "DbError"]
        /\ UNCHANGED termWrites
  /\ UNCHANGED <<nextId, queueVars, wjob, wtok, result, redeliveries, probes,
                 lateStart, cancelled>>
  /\ UNCHANGED runnerVars

\* worker.ts:65-78  catch: update(FAILED, 'ERROR', logs, finishedAt); a
\* throw of this update leaves the processor as a rejection.
SaveFailed(w) ==
  /\ pc[w] = "catch"
  /\ \/ /\ RecordFound(db, wjob[w])
        /\ db' = [db EXCEPT ![wjob[w]].status = "FAILED",
                            ![wjob[w]].verdict = "ERROR",
                            ![wjob[w]].logs = error[w],
                            ![wjob[w]].finishedAt = NewDate(db[wjob[w]])]
        /\ termWrites' = [termWrites EXCEPT ![w] = @ + 1]
        /\ pc' = [pc EXCEPT ![w] = "returned"]
        /\ UNCHANGED <<faults, wfault>>
     \/ /\ Thrown(w, "FAILED")
        /\ pc' = [pc EXCEPT ![w] = "threw"]
        /\ UNCHANGED termWrites
  /\ UNCHANGED <<nextId, queueVars, wjob, wtok, result, error, redeliveries,
                 probes, lateStart, cancelled>>
  /\ UNCHANGED runnerVars

\* The processor's promise settles: the queue moves the job to completed
\* (resolved) or failed (rejected; the job was added without an attempts
\* option, so it is not retried) if the worker still holds the job's lock,
\* and the worker is free for the next job.
Settle(w) ==
  /\ pc[w] \in {"returned", "threw"}
  /\ IF jobState[wjob[w]] = "active" /\ wtok[w] = deliveries[wjob[w]]
       THEN jobState' = [jobState EXCEPT ![wjob[w]] =
                           IF pc[w] = "returned" THEN "completed" ELSE "failed"]
       ELSE UNCHANGED jobState
  /\ pc' = [pc EXCEPT ![w] = "idle"]
  /\ wjob' = [wjob EXCEPT ![w] = NoJob]
  /\ wtok' = [wtok EXCEPT ![w] = 0]
  /\ result' = [result EXCEPT ![w] = "None"]
  /\ error' = [error EXCEPT ![w] = "None"]
  /\ termWrites' = [termWrites EXCEPT ![w] = 0]
  /\ wfault' = [wfault EXCEPT ![w] = {}]
  /\ lateStart' = [lateStart EXCEPT ![w] = FALSE]
  /\ UNCHANGED <<db, nextId, jobType, deliveries, faults, redeliveries, probes,
                 cancelled>>
  /\ UNCHANGED runnerVars

Next ==
  \/ \E t \in SchemaTestTypes : createTestRun(t)
  \/ \E w \in Workers, j \in RunIds : Deliver(w, j)
  \/ \E j \in RunIds : Redeliver(j)
  \/ \E w \in Workers : UpdateRunning(w)
  \/ \E w \in Workers : SelectRunner(w)
  \/ \E w \in Workers : SaveCompleted(w)
  \/ \E w \in Workers : SaveFailed(w)
  \/ \E w \in Workers : Settle(w)

Spec == Init /\ [][Next]_vars

\* Fair scheduling of the workers: a worker that can take a job or continue
\* its processor eventually does.  The queue's redelivery is not forced.
WorkerStep(w) ==
  \/ \E j \in RunIds : Deliver(w, j)
  \/ UpdateRunning(w)
  \/ SelectRunner(w)
  \/ SaveCompleted(w)
  \/ SaveFailed(w)
  \/ Settle(w)

FairSpec == Spec /\ \A w \in Workers : WF_vars(WorkerStep(w))

\* ------------------------------------------------------- stale job
\* The worker starts against a queue that still holds a job whose TestRun
\* row does not exist (job.data.testRunId names no row).
InitMissing ==
  /\ db = [r \in RunIds |-> NoRow]
  /\ nextId = MissingRun + 1
  /\ \E t \in SchemaTestTypes :
       jobType = [j \in RunIds |-> IF j = MissingRun THEN t ELSE "None"]
  /\ jobState = [j \in RunIds |-> IF j = MissingRun THEN "waiting" ELSE "none"]
  /\ deliveries = [j \in RunIds |-> 0]
  /\ pc = [w \in Workers |-> "idle"]
  /\ wjob = [w \in Workers |-> NoJob]
  /\ wtok = [w \in Workers |-> 0]
  /\ result = [w \in Workers |-> "None"]
  /\ error = [w \in Workers |-> "None"]
  /\ faults = 0
  /\ redeliveries = 0
  /\ probes = [r \in RunIds |-> 0]
  /\ termWrites = [w \in Workers |-> 0]
  /\ wfault = [w \in Workers |-> {}]
  /\ lateStart = [w \in Workers |-> FALSE]
  /\ cancelled = {}
  /\ IdemOff /\ RaceOff

SpecMissing == InitMissing /\ [][Next]_vars

\* ---------------------------------------------------- external cancellation
\* A caller cancels a run that no worker has picked up yet: the row is
\* marked in the status column (TEXT) and the job stays in the queue.
Cancel(r) ==
  /\ db[r].exists
  /\ db[r].status = "PENDING"
  /\ jobState[r] = "waiting"
  /\ deliveries[r] = 0
  /\ db' = [db EXCEPT ![r].status = "CANCELLED"]
  /\ cancelled' = cancelled \cup {r}
  /\ UNCHANGED <<nextId, queueVars, pc, wjob, wtok, result, error, faults,
                 redeliveries, probes, termWrites, wfault, lateStart>>
  /\ UNCHANGED runnerVars

NextCancel ==
  \/ Next
  \/ \E r \in RunIds : Cancel(r)

SpecCancel == Init /\ [][NextCancel]_vars

\* ================================================================ claims
Unimplemented == SchemaTestTypes \ {"IDEMPOTENCY", "RACE_CONDITION"}
Held(j) == \E w \in Workers : wjob[w] = j
Ended(j) == jobState[j] \in {"completed", "failed"} /\ ~Held(j)

\* C1: once a run's status is COMPLETED or FAILED it is never written back
\* to RUNNING or PENDING, over any sequence of job executions.
C1_NoReentry ==
  [][\A r \in RunIds : db[r].status \in Terminal => db'[r].status \in Terminal]_vars

\* C2: every execution of the processor performs the terminal write of the
\* run exactly once, also when a persistence update throws.
C2_TerminalWriteExactlyOnce ==
  \A w \in Workers : pc[w] \in {"returned", "threw"} => termWrites[w] = 1

\* C3: under fair scheduling of the workers every enqueued run eventually
\* is COMPLETED or FAILED with a verdict set.
C3_EventuallyTerminal ==
  \A r \in RunIds :
    (jobState[r] # "none") ~> (db[r].status \in Terminal /\ db[r].verdict # "None")

\* C4: an execution whose job was delivered when the run was already
\* COMPLETED or FAILED writes nothing to the run and invokes no runner.
C4_NoReexecution ==
  [][\A w \in Workers :
       (lateStart[w] /\ pc'[w] # pc[w]) => (db' = db /\ probes' = probes)]_vars

\* C5: once finishedAt of a run is set it never changes.
C5_FinishedAtOnce ==
  [][\A r \in RunIds :
       db[r].finishedAt # 0 => db'[r].finishedAt = db[r].finishedAt]_vars

C7_CancelledNotProbed ==
  \A r \in RunIds : r \in cancelled => probes[r] = 0

\* C8: no two workers are at the same time between the RUNNING write and
\* the terminal write of the same run.
InFlight == {"select", "save"}
C8_NoConcurrentProcessing ==
  \A w1 \in Workers, w2 \in Workers :
    (w1 # w2 /\ wjob[w1] # NoJob /\ wjob[w1] = wjob[w2])
      => ~(pc[w1] \in InFlight /\ pc[w2] \in InFlight)

\* C9: an execution in which a persistence write threw does not end as a
\* normally completed job.
C9_WriteFailureFailsJob ==
  \A w \in Workers : pc[w] = "returned" => wfault[w] = {}

\* C10: a job whose run row does not exist never reaches a runner, creates
\* no row and does not end as completed.
C10_MissingRunFatal ==
  /\ db[MissingRun] = NoRow
  /\ probes[MissingRun] = 0
  /\ jobState[MissingRun] \in {"waiting", "active", "failed"}
  /\ \A w \in Workers :
       wjob[w] = MissingRun => pc[w] \in {"start", "catch", "threw"}

C10_Witness ==
  /\ jobState[MissingRun] = "failed"
  /\ db[MissingRun] = NoRow
  /\ ~Held(MissingRun)

\* ======================================================= idempotency runner
\* ------------------------------------------------------------- data model
MaxSchemaLen == 2     \* longest field list the oracle puts in a schema

\* Response bodies.  A structured body maps field names to values
\* (Undefined: the key is absent); any other body is text.
Fields == {"id", "balance"}
FieldOrder == <<"id", "balance">>
Values == {"a1", "a2"}
Undefined == "undefined"
ObjBodies == {[t |-> "obj", f |-> m] : m \in [Fields -> Values \cup {Undefined}]}
TextBodies == {[t |-> "text", s |-> x] : x \in {"ok", "no"}}

\* typeof body === 'object'
IsObject(body) == body.t = "obj"

\* _.get(body, field)
Get(body, field) ==
  IF body.t = "obj" /\ field \in DOMAIN body.f THEN body.f[field] ELSE Undefined

\* Object.keys(body): own keys in insertion order; the indices of a string
Keys(body) ==
  IF body.t = "obj"
    THEN SelectSeq(FieldOrder, LAMBDA k : body.f[k] # Undefined)
    ELSE [i \in 1..2 |-> IF i = 1 THEN "0" ELSE "1"]

\* A parsed JSON value: null, or an object o (a function from its keys)
JsNull == [t |-> "null"]
JsObj(o) == [t |-> "obj", o |-> o]
EmptyObj == JsObj([k \in {} |-> <<>>])

\* schema.identity || [] , schema.data || []
ListOr(sch, key) == IF key \in DOMAIN sch.o THEN sch.o[key] ELSE <<>>

\* index of the field at which the for-loop over a list returns (0: none)
LastDiff(list, body1, body2) ==
  IF \E i \in 1..Len(list) : Get(body1, list[i]) # Get(body2, list[i])
    THEN CHOOSE i \in 1..Len(list) :
           /\ Get(body1, list[i]) # Get(body2, list[i])
           /\ \A j \in (i+1)..Len(list) : Get(body1, list[j]) = Get(body2, list[j])
    ELSE 0
FirstDiff(list, body1, body2) ==
  IF \E i \in 1..Len(list) : Get(body1, list[i]) # Get(body2, list[i])
    THEN CHOOSE i \in 1..Len(list) :
           /\ Get(body1, list[i]) # Get(body2, list[i])
           /\ \A j \in 1..(i-1) : Get(body1, list[j]) = Get(body2, list[j])
    ELSE 0

NoDiff == [kind |-> "undefined"]
DiffAt(list, i, body1, body2) ==
  [field |-> list[i], val1 |-> Get(body1, list[i]), val2 |-> Get(body2, list[i])]

Validation(v, t, d, diff) ==
  [kind |-> "ok", verdict |-> v, title |-> t, description |-> d, diff |-> diff]

\* idempotency.ts validateBodies: the identity loop, then the data loop.
\* Reading schema.identity of null throws a TypeError.
validateBodiesDataFirst(body1, body2, sch) ==
  IF sch.t = "null" THEN [kind |-> "throw"]
  ELSE LET ids == ListOr(sch, "identity")
           dat == ListOr(sch, "data")
           i == FirstDiff(ids, body1, body2)
           d == FirstDiff(dat, body1, body2)
       IN IF d # 0
            THEN Validation("WARN", "State Mutation Detected", "data field changed",
                            DiffAt(dat, d, body1, body2))
          ELSE IF i # 0
            THEN Validation("FAIL", "Double Execution Detected",
                            "identity field changed", DiffAt(ids, i, body1, body2))
          ELSE Validation("PASS", "Idempotent Response", "functionally identical",
                          NoDiff)
validateBodies(body1, body2, sch) ==
  IF sch.t = "null" THEN [kind |-> "throw"]
  ELSE LET ids == ListOr(sch, "identity")
           dat == ListOr(sch, "data")
           i == FirstDiff(ids, body1, body2)
           d == FirstDiff(dat, body1, body2)
       IN IF i # 0
            THEN Validation("FAIL", "Double Execution Detected",
                            "identity field changed", DiffAt(ids, i, body1, body2))
          ELSE IF d # 0
            THEN Validation("WARN", "State Mutation Detected", "data field changed",
                            DiffAt(dat, d, body1, body2))
          ELSE Validation("PASS", "Idempotent Response", "functionally identical",
                          NoDiff)

\* ------------------------------------------- validateBodies on its own
\* Inputs of validateBodies: two bodies with equal status, the first one
\* structured, and a schema with its three field lists.
FieldLists == UNION {[1..n -> Fields] : n \in 0..MaxSchemaLen}
FullSchemas ==
  {JsObj([identity |-> i, data |-> d, noise |-> n]) :
     i \in FieldLists, d \in FieldLists, n \in FieldLists}

Http(st, body, time) == [kind |-> "http", status |-> st, body |-> body, time |-> time]

InitValidate ==
  /\ WorkerInit /\ RaceOff
  /\ ipc = "validate"
  /\ \E b1 \in ObjBodies, b2 \in ObjBodies \cup TextBodies :
       res1 = Http(200, b1, 1) /\ res2 = Http(200, b2, 1)
  /\ schema \in FullSchemas
  /\ creply = None /\ jreply = None /\ iresult = None
  /\ sent = <<>> /\ inflight = {} /\ oracleLog = <<>> /\ settled = FALSE

\* idempotency.ts:163  const validation = validateBodies(res1.data, res2.data, schema)
ValidateStep ==
  /\ ipc = "validate"
  /\ iresult' = validateBodies(res1.body, res2.body, schema)
  /\ ipc' = "validated"
  /\ UNCHANGED <<res1, res2, creply, schema, jreply, sent, inflight, oracleLog, settled>>
  /\ UNCHANGED <<workerVars, raceVars>>

NextValidate == ValidateStep

SpecValidate == InitValidate /\ [][NextValidate]_vars

\* ------------------------------------------------------ claims C15, C16
Differs(fld) == Get(res1.body, fld) # Get(res2.body, fld)
IdentityDiffers == \E i \in 1..Len(schema.o.identity) : Differs(schema.o.identity[i])
DataDiffers == \E i \in 1..Len(schema.o.data) : Differs(schema.o.data[i])

\* C15: whenever some identity field differs between the two bodies the
\* verdict is FAIL "Double Execution Detected", whatever data fields differ
\* and also when the identity and data lists overlap.
C15_IdentityBeforeData ==
  (ipc = "validated" /\ IdentityDiffers) =>
     /\ iresult.kind = "ok"
     /\ iresult.verdict = "FAIL"
     /\ iresult.title = "Double Execution Detected"

C15_Witness ==
  /\ ipc = "validated" /\ IdentityDiffers /\ DataDiffers
  /\ \E i \in 1..Len(schema.o.identity), d \in 1..Len(schema.o.data) :
       schema.o.identity[i] = schema.o.data[d]
  /\ schema.o.data # <<>> /\ Differs(schema.o.data[1])
  /\ iresult.verdict = "FAIL"

\* C16: WARN "State Mutation Detected" exactly when no identity field and
\* some data field differs, PASS "Idempotent Response" exactly when neither
\* differs; the diff names the first differing field of the deciding list,
\* with both values; fields that are only noise do not matter.
FirstDiffering(list, i) ==
  /\ i \in 1..Len(list) /\ Differs(list[i])
  /\ \A j \in 1..(i-1) : ~Differs(list[j])
DiffNames(list) ==
  \E i \in 1..Len(list) :
    /\ FirstDiffering(list, i)
    /\ iresult.diff = [field |-> list[i], val1 |-> Get(res1.body, list[i]),
                       val2 |-> Get(res2.body, list[i])]
C16_WarnPassExact ==
  ipc = "validated" =>
     /\ iresult.kind = "ok"
     /\ (iresult.verdict = "WARN") = (~IdentityDiffers /\ DataDiffers)
     /\ (iresult.verdict = "PASS") = (~IdentityDiffers /\ ~DataDiffers)
     /\ (iresult.verdict = "WARN") = (iresult.title = "State Mutation Detected")
     /\ (iresult.verdict = "PASS") = (iresult.title = "Idempotent Response")
     /\ (iresult.verdict = "FAIL" => DiffNames(schema.o.identity))
     /\ (iresult.verdict = "WARN" => DiffNames(schema.o.data))
     /\ (iresult.verdict = "PASS" => iresult.diff = NoDiff)

C16_Witness ==
  /\ ipc = "validated" /\ iresult.verdict = "WARN"
  /\ Len(schema.o.data) = 2 /\ ~Differs(schema.o.data[1]) /\ Differs(schema.o.data[2])
  /\ iresult.diff.field = schema.o.data[2]
  /\ schema.o.noise # <<>> /\ Differs(schema.o.noise[1])

\* --------------------------------------------------------- oracle client
\* What groq.chat.completions.create and JSON.parse can give askGroqJSON:
\*   fail     the call rejects (network error, timeout, HTTP error)
\*   badjson  the content is not JSON, JSON.parse throws
\*   empty    the content is null or "", parsed as '{}'
\*   json     the content parses to value
ReplyFail == [kind |-> "fail"]
ReplyBadJson == [kind |-> "badjson"]
ReplyEmpty == [kind |-> "empty"]
ReplyJson(v) == [kind |-> "json", value |-> v]

\* ai.ts askGroqJSON: JSON.parse(content || '{}') as T, fallback in the catch
askGroqJSON(reply, fallback) ==
  IF reply.kind \in {"fail", "badjson"} THEN fallback
  ELSE IF reply.kind = "empty" THEN EmptyObj
  ELSE reply.value

\* ai.ts analyzeIdempotencySchema
Falsy(body) == body.t = "text" /\ body.s = ""
EmptySchema == JsObj([identity |-> <<>>, noise |-> <<>>, data |-> <<>>])
SchemaFallback(body) == JsObj([identity |-> <<>>, noise |-> <<>>, data |-> Keys(body)])
SkipsOracle(body) == Falsy(body) \/ Len(Keys(body)) = 0
analyzeIdempotencySchema(body, reply) ==
  IF SkipsOracle(body) THEN EmptySchema ELSE askGroqJSON(reply, SchemaFallback(body))

\* ai.ts evaluateIdempotencyMismatch
StrictFail == "AI Analysis Failed, defaulting to strict fail."
MismatchFallback == JsObj([verdict |-> "FAIL", reason |-> StrictFail])
evaluateIdempotencyMismatch(reply) == askGroqJSON(reply, MismatchFallback)

\* obj.key of a parsed object (undefined when the key is missing)
Prop(v, key) == IF key \in DOMAIN v.o THEN v.o[key] ELSE Undefined

\* Replies the oracle gives in the runner model
ClassifyReplies ==
  {ReplyFail, ReplyBadJson, ReplyEmpty, ReplyJson(JsNull),
   ReplyJson(JsObj([identity |-> <<"id">>, noise |-> <<>>, data |-> <<"balance">>])),
   ReplyJson(JsObj([identity |-> <<"id">>, noise |-> <<>>, data |-> <<"id", "balance">>])),
   ReplyJson(JsObj([identity |-> <<"id">>]))}
JudgeReplies ==
  {ReplyFail, ReplyBadJson, ReplyEmpty, ReplyJson(JsNull),
   ReplyJson(JsObj([verdict |-> "PASS", reason |-> "duplicate rejected"])),
   ReplyJson(JsObj([verdict |-> "FAIL", reason |-> "unrelated error"])),
   ReplyJson(JsObj([verdict |-> "MAYBE", reason |-> "unclear"])),
   ReplyJson(JsObj([reason |-> "no verdict"]))}

\* ------------------------------------------------------ runIdempotencyTest
Statuses == {200, 201, 404, 409, 500}
Latencies == {1, 2}   \* performance.now() differences
RunBodies ==
  {b \in ObjBodies : b.f["balance"] # "a2"} \cup {[t |-> "text", s |-> "ok"]}
NetError == [kind |-> "neterr"]

Meta(s1, s2, t1, t2, sch, diff) ==
  [req1Status |-> s1, req2Status |-> s2, req1Time |-> t1, req2Time |-> t2,
   aiSchema |-> sch, diff |-> diff]
Result(v, title, d, meta) ==
  [verdict |-> v, title |-> title, description |-> d, meta |-> meta]

\* idempotency.ts:178-186  catch (err)
ErrorResult ==
  Result("ERROR", "Execution Error", "Test runner failed",
         Meta(0, 0, 0, 0, NoDiff, NoDiff))

\* idempotency.ts:47-59
IsServerCrashAbove(st) == st > 500
IsServerCrash(st) == st >= 500
ServerCrash(r1) ==
  Result("FAIL", "Server Crash", "API returned 5xx on the first request",
         Meta(r1.status, 0, r1.time, 0, NoDiff, NoDiff))

\* idempotency.ts:76  Case A
GoldOnly200(s1, s2) == s1 = 200 /\ s2 = 409
Gold(s1, s2) == s1 >= 200 /\ s1 < 300 /\ s2 = 409

\* idempotency.ts:75-177  what follows the second response, up to the
\* await of the adjudicator; "adjudicate" stands for that await.
AfterR2(r1, r2, sch) ==
  IF Gold(r1.status, r2.status)
    THEN Result("PASS", "Conflict Correctly Handled", "409 Conflict returned",
                Meta(r1.status, r2.status, r1.time, r2.time, NoDiff, NoDiff))
  ELSE IF r1.status # r2.status
    THEN [verdict |-> "adjudicate"]
  ELSE IF ~IsObject(r1.body)
    THEN Result(IF r1.body = r2.body THEN "PASS" ELSE "WARN", "Non-JSON Response",
                "Simple string comparison performed",
                Meta(r1.status, r2.status, r1.time, r2.time, NoDiff, NoDiff))
  ELSE LET v == validateBodies(r1.body, r2.body, sch)
       IN IF v.kind = "throw" THEN ErrorResult
          ELSE Result(v.verdict, v.title, v.description,
                      Meta(r1.status, r2.status, r1.time, r2.time, sch, v.diff))

\* idempotency.ts:100-118  result built from the adjudicator's judgment;
\* reading .verdict of null throws into the catch block
MismatchResult(r1, r2, judgment) ==
  IF judgment.t = "null" THEN ErrorResult
  ELSE Result(Prop(judgment, "verdict"),
              IF Prop(judgment, "verdict") = "PASS"
                THEN "Safe Idempotent Rejection" ELSE "Inconsistent Status Code",
              Prop(judgment, "reason"),
              Meta(r1.status, r2.status, r1.time, r2.time, NoDiff, NoDiff))

InitIdem ==
  /\ WorkerInit /\ RaceOff
  /\ ipc = "start"
  /\ res1 = None /\ res2 = None
  /\ creply = None /\ schema = None /\ jreply = None
  /\ iresult = None
  /\ sent = <<>> /\ inflight = {} /\ oracleLog = <<>> /\ settled = FALSE

idemRest == <<workerVars, raceVars>>

\* idempotency.ts:44  axios(requestConfig) is issued
FireR1 ==
  /\ ipc = "start"
  /\ sent' = Append(sent, "R1")
  /\ inflight' = inflight \cup {"R1"}
  /\ ipc' = "await1"
  /\ UNCHANGED <<res1, res2, creply, schema, jreply, iresult, oracleLog, settled>>
  /\ UNCHANGED idemRest

\* idempotency.ts:44-59  the await of R1 ends: rejection (network error or
\* the 8000 ms timeout) or a response of any status
RecvR1 ==
  /\ ipc = "await1"
  /\ inflight' = inflight \ {"R1"}
  /\ \/ /\ res1' = NetError
        /\ iresult' = ErrorResult
        /\ ipc' = "done"
     \/ \E st \in Statuses, b \in RunBodies, t \in Latencies :
          /\ res1' = Http(st, b, t)
          /\ IF IsServerCrash(st)
               THEN iresult' = ServerCrash(res1') /\ ipc' = "done"
               ELSE iresult' = iresult /\ ipc' = "classify"
  /\ UNCHANGED <<res2, creply, schema, jreply, sent, oracleLog, settled>>
  /\ UNCHANGED idemRest

\* idempotency.ts:63  await analyzeIdempotencySchema(res1.data, res1.status)
Classify ==
  /\ ipc = "classify"
  /\ IF SkipsOracle(res1.body)
       THEN /\ schema' = analyzeIdempotencySchema(res1.body, None)
            /\ UNCHANGED <<creply, oracleLog>>
       ELSE \E reply \in ClassifyReplies :
              /\ creply' = reply
              /\ oracleLog' = Append(oracleLog, "classify")
              /\ schema' = analyzeIdempotencySchema(res1.body, reply)
  /\ ipc' = "delay"
  /\ UNCHANGED <<res1, res2, jreply, iresult, sent, inflight, settled>>
  /\ UNCHANGED idemRest

\* idempotency.ts:67  await new Promise((r) => setTimeout(r, 500))
Delay ==
  /\ ipc = "delay"
  /\ settled' = TRUE
  /\ ipc' = "fire2"
  /\ UNCHANGED <<res1, res2, creply, schema, jreply, iresult, sent, inflight, oracleLog>>
  /\ UNCHANGED idemRest

\* idempotency.ts:44-70  the awaits put the second axios call after the
\* first response, the classification and the delay
MayFireR2WithR1(p) == p \in {"await1", "fire2"}
MayFireR2(p) == p = "fire2"

\* idempotency.ts:70  axios(requestConfig) is issued again
FireR2 ==
  /\ MayFireR2(ipc)
  /\ sent' = Append(sent, "R2")
  /\ inflight' = inflight \cup {"R2"}
  /\ ipc' = "await2"
  /\ UNCHANGED <<res1, res2, creply, schema, jreply, iresult, oracleLog, settled>>
  /\ UNCHANGED idemRest

\* idempotency.ts:70-177  the await of R2 ends, then cases A to D
RecvR2 ==
  /\ ipc = "await2"
  /\ inflight' = inflight \ {"R2"}
  /\ \/ /\ res2' = NetError
        /\ iresult' = ErrorResult
        /\ ipc' = "done"
     \/ \E st \in Statuses, b \in RunBodies, t \in Latencies :
          /\ res2' = Http(st, b, t)
          /\ IF AfterR2(res1, res2', schema).verdict = "adjudicate"
               THEN iresult' = iresult /\ ipc' = "adjudicate"
               ELSE iresult' = AfterR2(res1, res2', schema) /\ ipc' = "done"
  /\ UNCHANGED <<res1, creply, schema, jreply, sent, oracleLog, settled>>
  /\ UNCHANGED idemRest

\* idempotency.ts:95-119  await evaluateIdempotencyMismatch(...), return
Adjudicate ==
  /\ ipc = "adjudicate"
  /\ \E reply \in JudgeReplies :
       /\ jreply' = reply
       /\ oracleLog' = Append(oracleLog, "adjudicate")
       /\ iresult' = MismatchResult(res1, res2, evaluateIdempotencyMismatch(reply))
  /\ ipc' = "done"
  /\ UNCHANGED <<res1, res2, creply, schema, sent, inflight, settled>>
  /\ UNCHANGED idemRest

NextIdem ==
  \/ FireR1
  \/ RecvR1
  \/ Classify
  \/ Delay
  \/ FireR2
  \/ RecvR2
  \/ Adjudicate

SpecIdem == InitIdem /\ [][NextIdem]_vars

\* --------------------------------------------- claims C11..C14, C17, C18
IsHttp(r) == r.kind = "http"
Range(q) == {q[i] : i \in 1..Len(q)}

\* C11: when R1 returns a status >= 500 the result is FAIL "Server Crash"
\* with req2Status and req2Time 0, and neither R2 nor the oracle is invoked.
C11_ServerCrash ==
  (IsHttp(res1) /\ res1.status >= 500) =>
     /\ ipc = "done"
     /\ iresult.verdict = "FAIL" /\ iresult.title = "Server Crash"
     /\ iresult.meta.req1Status = res1.status
     /\ iresult.meta.req2Status = 0 /\ iresult.meta.req2Time = 0
     /\ sent = <<"R1">> /\ res2 = None
     /\ oracleLog = <<>>

C11_Witness ==
  /\ IsHttp(res1) /\ res1.status = 500 /\ ipc = "done"
  /\ iresult.title = "Server Crash"

\* C12: R1 status in [200,300) and R2 status 409 give PASS "Conflict
\* Correctly Handled" and the mismatch adjudicator is not consulted.
C12_ConflictHandled ==
  (IsHttp(res1) /\ IsHttp(res2) /\ res1.status \in 200..299 /\ res2.status = 409) =>
     /\ ipc = "done"
     /\ iresult.verdict = "PASS"
     /\ iresult.title = "Conflict Correctly Handled"
     /\ "adjudicate" \notin Range(oracleLog)
     /\ jreply = None

C12_Witness ==
  /\ ipc = "done" /\ IsHttp(res1) /\ IsHttp(res2)
  /\ res1.status = 201 /\ res2.status = 409
  /\ iresult.title = "Conflict Correctly Handled"

\* C13: when the status-mismatch rule decides, the verdict is the
\* adjudicator's and always PASS or FAIL, its reason is the description,
\* and an unavailable oracle gives FAIL with the strict-fail reason.
C13_MismatchVerdict ==
  (ipc = "done" /\ jreply # None) =>
     /\ iresult.verdict \in {"PASS", "FAIL"}
     /\ (jreply.kind = "json" /\ jreply.value.t = "obj") =>
          /\ iresult.verdict = Prop(jreply.value, "verdict")
          /\ iresult.description = Prop(jreply.value, "reason")
     /\ (jreply.kind \in {"fail", "badjson"}) =>
          /\ iresult.verdict = "FAIL"
          /\ iresult.description = StrictFail

\* C14: a malformed or absent oracle response gives what a hard failure of
\* the operation gives (the fallback) and never an ERROR verdict.
Malformed(reply, keys) ==
  \/ reply.kind = "empty"
  \/ reply.kind = "json" /\ reply.value.t = "null"
  \/ reply.kind = "json" /\ reply.value.t = "obj" /\ ~(keys \subseteq DOMAIN reply.value.o)
C14_MalformedIsFallback ==
  /\ (creply # None /\ schema # None /\ Malformed(creply, {"identity", "data", "noise"}))
       => schema = SchemaFallback(res1.body)
  /\ (ipc = "done" /\ jreply # None /\ Malformed(jreply, {"verdict", "reason"}))
       => (iresult.verdict = "FAIL" /\ iresult.description = StrictFail)
  /\ (ipc = "done" /\ IsHttp(res1) /\ IsHttp(res2)) => iresult.verdict # "ERROR"

\* C17: a network failure on R1 gives ERROR at once with no second request;
\* a network failure on R2 does not give ERROR and leaves R1's status in meta.
C17_NetworkFailures ==
  /\ res1 = NetError =>
       (ipc = "done" /\ iresult.verdict = "ERROR" /\ sent = <<"R1">>)
  /\ (res2 = NetError /\ ipc = "done") =>
       (iresult.verdict # "ERROR" /\ iresult.meta.req1Status = res1.status)

\* C18: R2 is issued only after R1's response, the classification and the
\* delay; R1 and R2 are never in flight together.
C18_Sequential ==
  /\ sent \in {<<>>, <<"R1">>, <<"R1", "R2">>}
  /\ "R2" \in Range(sent) =>
       (IsHttp(res1) /\ "R1" \notin inflight /\ schema # None /\ settled)
  /\ Cardinality(inflight) <= 1

C18_Witness ==
  /\ inflight = {"R2"} /\ sent = <<"R1", "R2">>
  /\ "classify" \in Range(oracleLog)

\* ---------------------------------------------------- race-condition runner
\* part_001 runRaceConditionTest: number of parallel requests
BATCH_SIZE == 10

\* JSON values of the constraint object.  A number is an integer n, or a
\* non-integer strictly between lo and lo + 1.
Num(n) == [t |-> "num", n |-> n]
Frac(lo) == [t |-> "frac", lo |-> lo]
Str(s) == [t |-> "str", s |-> s]
JsUndefined == [t |-> "undefined"]
NaN == [t |-> "nan"]
Unlimited == Str("UNLIMITED")

\* obj.key of a parsed constraint object
Member(v, key) == IF key \in DOMAIN v.o THEN v.o[key] ELSE JsUndefined

\* JavaScript Number(x)
Number(x) ==
  CASE x.t \in {"num", "frac"} -> x
    [] x.t = "null" -> Num(0)
    [] x.t = "str" -> IF x.s = "" THEN Num(0)
                      ELSE IF x.s = "2" THEN Num(2)
                      ELSE NaN
    [] OTHER -> NaN

\* x || 1 for a number, x || dflt for a string
OrOne(x) == IF x = NaN \/ x = Num(0) THEN Num(1) ELSE x
OrString(x, dflt) == IF x = JsUndefined \/ x = Str("") \/ x = JsNull THEN Str(dflt) ELSE x

\* ai.ts analyzeRaceConditionIntent: reading a key of null throws
IntentFallback == JsObj([max_successes |-> Num(1), reason |-> Str("Fallback Default")])
analyzeRaceConditionIntent(reply) ==
  LET parsed == askGroqJSON(reply, IntentFallback) IN
  IF parsed = JsNull THEN [kind |-> "throw"]
  ELSE [kind |-> "ok",
        max_successes |-> IF Member(parsed, "max_successes") = Unlimited
                          THEN Unlimited
                          ELSE OrOne(Number(Member(parsed, "max_successes"))),
        reason |-> OrString(Member(parsed, "reason"), "AI Default")]

\* part_001:23-46: the constraint the runner compares against
DefaultConstraint == [max_successes |-> Num(1), reason |-> Str("Default strict safety")]
RunnerConstraint(reply) ==
  LET aiResult == analyzeRaceConditionIntent(reply) IN
  IF aiResult.kind = "throw" THEN DefaultConstraint
  ELSE [max_successes |-> IF aiResult.max_successes = Unlimited
                          THEN Num(9999)
                          ELSE OrOne(Number(aiResult.max_successes)),
        reason |-> aiResult.reason]

\* successes > constraint.max_successes, successes being an integer
Exceeds(successes, max) ==
  IF max.t = "num" THEN successes > max.n ELSE successes > max.lo

\* part_001:82-113
RaceResult(successes, failures, codes, c) ==
  LET meta == [totalRequests |-> BATCH_SIZE, successCount |-> successes,
               failCount |-> failures, statusCodes |-> codes, aiConstraint |-> c]
  IN IF Exceeds(successes, c.max_successes)
     THEN [kind |-> "ok", verdict |-> "FAIL", title |-> "Race Condition Detected", meta |-> meta]
     ELSE IF successes = 0 /\ failures > 0
     THEN [kind |-> "ok", verdict |-> "WARN", title |-> "Endpoint Unstable", meta |-> meta]
     ELSE [kind |-> "ok", verdict |-> "PASS", title |-> "Race Condition Safe", meta |-> meta]

\* What the oracle answers about the request's intent
MaxSuccessesValues ==
  {Num(1), Num(3), Num(0), Num(-1), Frac(0), Unlimited, Str("many"), Str("2")}
IntentReplies ==
  {ReplyFail, ReplyBadJson, ReplyEmpty, ReplyJson(JsNull),
   ReplyJson(JsObj([reason |-> Str("single use")]))}
  \cup {ReplyJson(JsObj([max_successes |-> v, reason |-> Str("single use")])) :
          v \in MaxSuccessesValues}
  \cup {ReplyJson(JsObj([max_successes |-> v])) : v \in {Num(1), Unlimited}}

\* Status of one request of the burst; 0 is a network error caught by the
\* request's own catch
RaceStatuses == {200, 409, 500, 0}
OkOrNoStatus(st) == st = 0 \/ (st >= 200 /\ st <= 299)
Ok(st) == st >= 200 /\ st <= 299

InitRace ==
  /\ WorkerInit /\ IdemOff
  /\ rpc = "intent"
  /\ kreply = None /\ constraint = DefaultConstraint
  /\ rsent = 0 /\ rok = 0 /\ rfail = 0 /\ rcodes = {}
  /\ rresult = None

raceRest == <<workerVars, idemVars>>

\* part_001:25-46 await analyzeRaceConditionIntent, normalise or keep the default
Intent ==
  /\ rpc = "intent"
  /\ \E reply \in IntentReplies :
       /\ kreply' = reply
       /\ constraint' = RunnerConstraint(reply)
  /\ rpc' = "burst"
  /\ UNCHANGED <<rsent, rok, rfail, rcodes, rresult, raceRest>>

\* part_001:50-69 one fetch of the map; after the last one the runner
\* awaits Promise.all
MayFireAfterResponse(issued, answered) == issued < BATCH_SIZE /\ answered = issued
MayFire(issued, answered) == issued < BATCH_SIZE
Fire ==
  /\ rpc = "burst" /\ MayFire(rsent, rok + rfail)
  /\ rsent' = rsent + 1
  /\ rpc' = IF rsent + 1 = BATCH_SIZE THEN "await" ELSE "burst"
  /\ UNCHANGED <<kreply, constraint, rok, rfail, rcodes, rresult, raceRest>>

\* part_001:58-68 one request settles, as a response or as a caught error
Respond ==
  /\ rpc = "await" /\ rok + rfail < rsent
  /\ \E st \in RaceStatuses :
       /\ rok' = IF Ok(st) THEN rok + 1 ELSE rok
       /\ rfail' = IF Ok(st) THEN rfail ELSE rfail + 1
       /\ rcodes' = rcodes \cup {st}
  /\ UNCHANGED <<rpc, kreply, constraint, rsent, rresult, raceRest>>

\* part_001:72-113 Promise.all resolves, tally and verdict
Tally ==
  /\ rpc = "await" /\ rok + rfail = BATCH_SIZE
  /\ rresult' = RaceResult(rok, rfail, rcodes, constraint)
  /\ rpc' = "done"
  /\ UNCHANGED <<kreply, constraint, rsent, rok, rfail, rcodes, raceRest>>

NextRace == Intent \/ Fire \/ Respond \/ Tally
SpecRace == InitRace /\ [][NextRace]_vars

\* ------------------------------------------------------ claims C19, C20
Over(s, mx) == IF mx.t = "num" THEN s > mx.n ELSE s >= mx.lo + 1

\* C19: the race verdict is FAIL "Race Condition Detected" when successCount >
\* maxSuccesses, otherwise WARN "Endpoint Unstable" when successCount = 0 and
\* failCount > 0, otherwise PASS "Race Condition Safe"; with batch size 10,
\* maxSuccesses 1 and 10 successes give FAIL, 9999 and 10 successes give PASS,
\* and 10 errors give WARN.
C19_VerdictFunction ==
  rpc = "done" =>
    LET s == rresult.meta.successCount
        f == rresult.meta.failCount
        mx == rresult.meta.aiConstraint.max_successes
    IN /\ s = rok /\ f = rfail /\ mx = constraint.max_successes
       /\ IF Over(s, mx)
          THEN rresult.verdict = "FAIL" /\ rresult.title = "Race Condition Detected"
          ELSE IF s = 0 /\ f > 0
          THEN rresult.verdict = "WARN" /\ rresult.title = "Endpoint Unstable"
          ELSE rresult.verdict = "PASS" /\ rresult.title = "Race Condition Safe"
       /\ (mx = Num(1) /\ s = 10 => rresult.verdict = "FAIL")
       /\ (mx = Num(9999) /\ s = 10 => rresult.verdict = "PASS")
       /\ (f = 10 => rresult.verdict = "WARN")

\* C20: an oracle failure never raises into the runner: the field
\* classification falls back to identity = [], noise = [] and every top-level
\* key as data, and the race constraint falls back to maxSuccesses 1 with
\* reason "Default strict safety", which the result meta reports.
OracleFailed(reply) == reply \in {ReplyFail, ReplyBadJson}
C20_OracleFallbacks ==
  /\ (ipc \in {"delay", "fire2", "await2", "adjudicate", "done"}
        /\ OracleFailed(creply) /\ IsHttp(res1) /\ ~SkipsOracle(res1.body))
       => schema = JsObj([identity |-> <<>>, noise |-> <<>>, data |-> Keys(res1.body)])
  /\ (rpc # "intent" /\ OracleFailed(kreply))
       => constraint = [max_successes |-> Num(1), reason |-> Str("Default strict safety")]
  /\ (rpc = "done" /\ OracleFailed(kreply))
       => rresult.meta.aiConstraint =
            [max_successes |-> Num(1), reason |-> Str("Default strict safety")]

\* ------------------------------------------------------------ claim C21
\* C21: all requests of the batch are issued before the runner waits for any
\* response: while requests remain to be issued the next one can be issued
\* whatever responses are outstanding, and no response is taken before the
\* whole batch is out.
C21_BurstNotSerialised ==
  /\ (rpc = "burst" /\ rsent < BATCH_SIZE) => ENABLED Fire
  /\ (rok + rfail > 0) => rsent = BATCH_SIZE
  /\ (rpc \in {"await", "done"}) => rsent = BATCH_SIZE

C21_Witness == rpc = "await" /\ rsent = BATCH_SIZE /\ rok + rfail = 0

\* ------------------------------------------------------------ claim C22
\* C22: a network error on any subset of the batch never aborts the batch:
\* a failing request is recorded as status 0 and not-ok, the remaining
\* requests are still awaited, every request contributes one entry, and
\* successCount + failCount = totalRequests = 10 in every result.
C22_BatchSurvivesErrors ==
  /\ (rpc = "await" /\ rok + rfail < BATCH_SIZE) => ENABLED Respond
  /\ (rpc = "await" /\ rok + rfail = BATCH_SIZE) => ENABLED Tally
  /\ (0 \in rcodes) => rfail > 0
  /\ (rcodes = {0}) => rok = 0
  /\ rok + rfail <= rsent
  /\ rpc = "done" =>
       /\ rresult.kind = "ok"
       /\ rresult.meta.totalRequests = 10
       /\ rresult.meta.successCount + rresult.meta.failCount = 10
       /\ rresult.meta.successCount = rok /\ rresult.meta.failCount = rfail
       /\ rresult.meta.statusCodes = rcodes

C22_Witness ==
  /\ rpc = "done" /\ 0 \in rresult.meta.statusCodes
  /\ rresult.meta.successCount > 0 /\ rresult.meta.failCount < 10

\* ------------------------------------------------------------ claim C23
\* The steps of runRaceConditionTest that depend on the runner alone always
\* happen.  fetch is called without a timeout or an abort signal
\* (part_001:53-57), so nothing in the program makes a request settle:
\* Respond is not fair.
FairSpecRace == SpecRace /\ WF_vars(Fire) /\ WF_vars(Tally)

\* C23: every runner invocation eventually returns a result even when the
\* target endpoint never responds, every outbound call being bounded by a
\* timeout: a race-condition run that has its constraint eventually returns.
C23_RunnerReturns == (rpc = "burst") ~> (rpc = "done")

\* ------------------------------------------------------------ claim C24
\* C24: in every reachable state of a run record the verdict is set only if
\* the status is COMPLETED or FAILED: no run in PENDING or RUNNING carries a
\* verdict, over any sequence of job executions including redelivery.
C24_VerdictOnlyWhenEnded ==
  \A r \in RunIds :
    (db[r].exists /\ db[r].status \in {"PENDING", "RUNNING"})
       => db[r].verdict = NoRow.verdict

\* ------------------------------------------------------------ claim C25
\* The rule that produced a returned result
ByMismatchRule == ipc = "done" /\ jreply # None /\ iresult # ErrorResult
ByBodyRule ==
  /\ ipc = "done" /\ IsHttp(res1) /\ IsHttp(res2) /\ jreply = None
  /\ res1.status = res2.status /\ res1.status < 500
  /\ IsObject(res1.body) /\ iresult # ErrorResult

\* C25: every result of the idempotency runner has both statuses and both
\* latencies in meta, and it includes the field classification schema and
\* the diff detail whenever the status-mismatch rule or the structured-body
\* rule produced the verdict.
C25_MetaComplete ==
  /\ ipc = "done" =>
       /\ iresult.meta.req1Status \in Nat /\ iresult.meta.req2Status \in Nat
       /\ iresult.meta.req1Time \in Nat /\ iresult.meta.req2Time \in Nat
  /\ ByBodyRule =>
       /\ iresult.meta.aiSchema = schema
       /\ (iresult.verdict \in {"FAIL", "WARN"}) => iresult.meta.diff # NoDiff
  /\ ByMismatchRule => iresult.meta.aiSchema = schema

\* ------------------------------------------------------------ claim C26
\* C26: the maxSuccesses the race runner compares against is always a
\* positive integer (or the stand-in 9999), for every value the oracle can
\* return, including 0, negative numbers, fractions, non-numeric strings and
\* missing keys; hence a burst with successCount = 0 is never FAIL.
C26_PositiveMaxSuccesses ==
  /\ constraint # None =>
       /\ constraint.max_successes.t = "num"
       /\ constraint.max_successes.n >= 1
  /\ (rpc = "done" /\ rresult.meta.successCount = 0) => rresult.verdict # "FAIL"

====
